---------------------------- MODULE Spec2Model ----------------------------
(***************************************************************************)
(* Circuit Management Portal: the Index page (session, selected circuit,   *)
(* current view), the LoginForm, CircuitSearch, CircuitDetails and         *)
(* ClientRegistration components, their setTimeout callbacks, and the two  *)
(* field validators.                                                       *)
(*                                                                         *)
(* A JavaScript string is a sequence of one-character strings, so that     *)
(* trim, toLowerCase, split, parseInt and the regular expressions are      *)
(* computed character by character as the code computes them.              *)
(***************************************************************************)
EXTENDS Integers, Sequences, FiniteSets, TLC

(***************************************************************************)
(* Characters and string primitives                                        *)
(***************************************************************************)
Digits == {"0", "1", "2", "3", "4", "5", "6", "7", "8", "9"}

WhiteSpace == {" ", "\t"}

DigitVal(c) ==
    CASE c = "0" -> 0 [] c = "1" -> 1 [] c = "2" -> 2 [] c = "3" -> 3
      [] c = "4" -> 4 [] c = "5" -> 5 [] c = "6" -> 6 [] c = "7" -> 7
      [] c = "8" -> 8 [] c = "9" -> 9
      [] c \in {"a", "A"} -> 10 [] c \in {"b", "B"} -> 11
      [] c \in {"c", "C"} -> 12 [] c \in {"d", "D"} -> 13
      [] c \in {"e", "E"} -> 14 [] c \in {"f", "F"} -> 15
      [] OTHER -> 99

LowerChar(c) ==
    CASE c = "A" -> "a" [] c = "B" -> "b" [] c = "C" -> "c" [] c = "D" -> "d"
      [] c = "E" -> "e" [] c = "F" -> "f" [] c = "G" -> "g" [] c = "H" -> "h"
      [] c = "I" -> "i" [] c = "J" -> "j" [] c = "K" -> "k" [] c = "L" -> "l"
      [] c = "M" -> "m" [] c = "N" -> "n" [] c = "O" -> "o" [] c = "P" -> "p"
      [] c = "Q" -> "q" [] c = "R" -> "r" [] c = "S" -> "s" [] c = "T" -> "t"
      [] c = "U" -> "u" [] c = "V" -> "v" [] c = "W" -> "w" [] c = "X" -> "x"
      [] c = "Y" -> "y" [] c = "Z" -> "z"
      [] OTHER -> c

UpperChar(c) ==
    CASE c = "a" -> "A" [] c = "b" -> "B" [] c = "c" -> "C" [] c = "d" -> "D"
      [] c = "e" -> "E" [] c = "f" -> "F" [] c = "g" -> "G" [] c = "h" -> "H"
      [] c = "i" -> "I" [] c = "j" -> "J" [] c = "k" -> "K" [] c = "l" -> "L"
      [] c = "m" -> "M" [] c = "n" -> "N" [] c = "o" -> "O" [] c = "p" -> "P"
      [] c = "q" -> "Q" [] c = "r" -> "R" [] c = "s" -> "S" [] c = "t" -> "T"
      [] c = "u" -> "U" [] c = "v" -> "V" [] c = "w" -> "W" [] c = "x" -> "X"
      [] c = "y" -> "Y" [] c = "z" -> "Z"
      [] OTHER -> c

\* String.prototype.toLowerCase
toLowerCase(s) == [i \in 1..Len(s) |-> LowerChar(s[i])]

\* s with its first n characters removed
Drop(s, n) == SubSeq(s, n + 1, Len(s))

\* number of leading characters of s that belong to the set cs
RECURSIVE LeadingIn(_, _)
LeadingIn(s, cs) ==
    IF s # <<>> /\ Head(s) \in cs THEN 1 + LeadingIn(Tail(s), cs) ELSE 0

\* number of trailing characters of s that belong to the set cs
RECURSIVE TrailingIn(_, _)
TrailingIn(s, cs) ==
    IF s # <<>> /\ s[Len(s)] \in cs
    THEN 1 + TrailingIn(SubSeq(s, 1, Len(s) - 1), cs)
    ELSE 0

\* String.prototype.trim
trim(s) ==
    LET t == Drop(s, LeadingIn(s, WhiteSpace))
    IN  SubSeq(t, 1, Len(t) - TrailingIn(t, WhiteSpace))

\* String.prototype.split with a one-character separator
RECURSIVE split(_, _)
split(s, sep) ==
    IF \E i \in 1..Len(s) : s[i] = sep
    THEN LET i == CHOOSE k \in 1..Len(s) :
                      s[k] = sep /\ \A j \in 1..(k - 1) : s[j] # sep
         IN  <<SubSeq(s, 1, i - 1)>> \o split(Drop(s, i), sep)
    ELSE <<s>>

AllIn(s, cs) == \A i \in 1..Len(s) : s[i] \in cs

\* the value of a string of digits in the given radix.  A JavaScript number
\* holds any value the validators compare; here values above a million are
\* kept at a million, which is above every limit they are compared with.
RECURSIVE NumVal(_, _)
NumVal(s, radix) ==
    IF s = <<>> THEN 0
    ELSE LET v == NumVal(SubSeq(s, 1, Len(s) - 1), radix) * radix + DigitVal(s[Len(s)])
         IN  IF v > 1000000 THEN 1000000 ELSE v

RadixDigits(radix) ==
    IF radix = 16
    THEN Digits \cup {"a", "b", "c", "d", "e", "f", "A", "B", "C", "D", "E", "F"}
    ELSE Digits

\* parseInt(string) with no radix argument: leading white space is skipped,
\* one sign is read, a 0x / 0X prefix selects radix 16, the longest prefix of
\* digits is converted and whatever follows it is ignored; no digit gives NaN.
parseInt(s) ==
    LET s1     == Drop(s, LeadingIn(s, WhiteSpace))
        signed == s1 # <<>> /\ Head(s1) \in {"+", "-"}
        sign   == IF s1 # <<>> /\ Head(s1) = "-" THEN -1 ELSE 1
        s2     == IF signed THEN Tail(s1) ELSE s1
        hex    == Len(s2) >= 2 /\ s2[1] = "0" /\ s2[2] \in {"x", "X"}
        radix  == IF hex THEN 16 ELSE 10
        s3     == IF hex THEN Drop(s2, 2) ELSE s2
        n      == LeadingIn(s3, RadixDigits(radix))
    IN  IF n = 0
        THEN [nan |-> TRUE, val |-> 0]
        ELSE [nan |-> FALSE, val |-> sign * NumVal(SubSeq(s3, 1, n), radix)]

isNaN(r) == r.nan

\* JavaScript relational operators: every comparison with NaN is false
NumGt(r, k) == ~r.nan /\ r.val > k
NumLt(r, k) == ~r.nan /\ r.val < k

(***************************************************************************)
(* The regular expressions of the validators                               *)
(***************************************************************************)
\* /^(\d{1,3}\.){3}\d{1,3}$/.test(value)
ipRegex(value) ==
    LET parts == split(value, ".")
    IN  /\ Len(parts) = 4
        /\ \A i \in 1..4 : Len(parts[i]) \in 1..3 /\ AllIn(parts[i], Digits)

BandwidthUnits ==
    { <<"m", "b", "p", "s">>, <<"g", "b", "p", "s">>, <<"k", "b", "p", "s">> }

\* the same pattern without the flag i
bandwidthRegexCased(value) ==
    LET d    == LeadingIn(value, Digits)
        rest == Drop(value, d)
        unit == Drop(rest, LeadingIn(rest, WhiteSpace))
    IN  d >= 1 /\ unit \in { <<"M","b","p","s">>, <<"G","b","p","s">>,
                              <<"K","b","p","s">> }

\* value.match(/^\d+\s*(Mbps|Gbps|Kbps)$/i)
bandwidthRegex(value) ==
    LET d    == LeadingIn(value, Digits)
        rest == Drop(value, d)
        unit == Drop(rest, LeadingIn(rest, WhiteSpace))
    IN  d >= 1 /\ toLowerCase(unit) \in BandwidthUnits

(***************************************************************************)
(* The Circuit type and the mock record store                              *)
(***************************************************************************)
\* the keys of formData, in insertion order (the order Object.entries visits)
FormFields ==
    << "circuit_id", "client_name", "client_ip", "subnet", "dns", "vlan",
       "bandwidth", "location", "mux_id", "port_id" >>

FormFieldSet == {FormFields[i] : i \in 1..Len(FormFields)}

CircuitFields == FormFieldSet \cup {"last_updated"}

\* the value React state holds for "no object"
NULL == [null |-> TRUE]

Demo1 ==
    [ circuit_id |-> <<"C","K","T","-","0","0","1","-","N","Y","C">>,
      client_name |-> <<"T","e","c","h","C","o","r","p"," ","S","o","l","u","t","i","o","n","s">>,
      client_ip |-> <<"1","9","2",".","1","6","8",".","1",".","1","0","0">>,
      subnet |-> <<"2","5","5",".","2","5","5",".","2","5","5",".","0">>,
      dns |-> <<"8",".","8",".","8",".","8">>,
      vlan |-> <<"1","0","0">>,
      bandwidth |-> <<"1"," ","G","b","p","s">>,
      location |-> <<"N","e","w"," ","Y","o","r","k"," ","D","a","t","a"," ","C","e","n","t","e","r">>,
      mux_id |-> <<"M","U","X","-","N","Y","C","-","0","1">>,
      port_id |-> <<"P","o","r","t","-","2","4">>,
      last_updated |-> [literal |-> "2024-06-14 10:30:00"] ]

Demo2 ==
    [ circuit_id |-> <<"C","K","T","-","0","0","2","-","L","A","X">>,
      client_name |-> <<"G","l","o","b","a","l"," ","E","n","t","e","r","p","r","i","s","e","s"," ","I","n","c">>,
      client_ip |-> <<"1","0",".","0",".","0",".","5","0">>,
      subnet |-> <<"2","5","5",".","2","5","5",".","0",".","0">>,
      dns |-> <<"1",".","1",".","1",".","1">>,
      vlan |-> <<"2","0","0">>,
      bandwidth |-> <<"5","0","0"," ","M","b","p","s">>,
      location |-> <<"L","o","s"," ","A","n","g","e","l","e","s"," ","D","a","t","a"," ","C","e","n","t","e","r">>,
      mux_id |-> <<"M","U","X","-","L","A","X","-","0","3">>,
      port_id |-> <<"P","o","r","t","-","1","2">>,
      last_updated |-> [literal |-> "2024-06-13 15:45:00"] ]

Demo3 ==
    [ circuit_id |-> <<"C","K","T","-","0","0","3","-","C","H","I">>,
      client_name |-> <<"M","e","t","r","o"," ","N","e","t","w","o","r","k","s"," ","L","L","C">>,
      client_ip |-> <<"1","7","2",".","1","6",".","1","0",".","2","5">>,
      subnet |-> <<"2","5","5",".","2","5","5",".","2","5","5",".","1","2","8">>,
      dns |-> <<"8",".","8",".","4",".","4">>,
      vlan |-> <<"1","5","0">>,
      bandwidth |-> <<"2"," ","G","b","p","s">>,
      location |-> <<"C","h","i","c","a","g","o"," ","D","a","t","a"," ","C","e","n","t","e","r">>,
      mux_id |-> <<"M","U","X","-","C","H","I","-","0","2">>,
      port_id |-> <<"P","o","r","t","-","0","8">>,
      last_updated |-> [literal |-> "2024-06-14 09:15:00"] ]

\* the module-level constant array of CircuitSearch
mockCircuits == <<Demo1, Demo2, Demo3>>

\* new Date().toLocaleString() read when the clock shows t
toLocaleString(t) == [locale |-> t]

(***************************************************************************)
(* The validators.  '' (no error) is the empty TLA+ string.                *)
(***************************************************************************)
\* the octet test with its limit one too high
OctetAbove256(value) ==
    LET parts == split(value, ".")
    IN  \E i \in 1..Len(parts) : NumGt(parseInt(parts[i]), 256)

\* parts.some(part => parseInt(part) > 255)
OctetAbove255(value) ==
    LET parts == split(value, ".")
    IN  \E i \in 1..Len(parts) : NumGt(parseInt(parts[i]), 255)

VlanOutOfRange(value) ==
    LET vlanNum == parseInt(value)
    IN  isNaN(vlanNum) \/ NumLt(vlanNum, 1) \/ NumGt(vlanNum, 4094)

\* CircuitDetails.validateField
EditValidateField(field, value) ==
    CASE field = "client_ip" ->
            IF ~ipRegex(value) THEN "Invalid IP address format"
            ELSE IF OctetAbove255(value) THEN "IP address octets must be 0-255"
            ELSE ""
      [] field = "subnet" ->
            IF ~ipRegex(value) THEN "Invalid subnet mask format"
            ELSE IF OctetAbove255(value) THEN "Subnet mask octets must be 0-255"
            ELSE ""
      [] field = "dns" ->
            IF ~ipRegex(value) THEN "Invalid DNS server format"
            ELSE IF OctetAbove255(value) THEN "DNS server octets must be 0-255"
            ELSE ""
      [] field = "vlan" ->
            IF VlanOutOfRange(value) THEN "VLAN must be between 1-4094" ELSE ""
      [] field = "bandwidth" ->
            IF ~bandwidthRegex(value)
            THEN "Bandwidth must include unit (e.g., 100 Mbps, 1 Gbps)"
            ELSE ""
      [] field = "client_name" ->
            IF Len(value) < 2 THEN "Client name must be at least 2 characters"
            ELSE ""
      [] OTHER -> ""

\* ClientRegistration.validateField
RegValidateField(field, value) ==
    CASE field = "circuit_id" ->
            IF Len(value) < 3 THEN "Circuit ID must be at least 3 characters"
            ELSE ""
      [] field = "client_name" ->
            IF Len(value) < 2 THEN "Client name must be at least 2 characters"
            ELSE ""
      [] field = "client_ip" ->
            IF ~ipRegex(value) THEN "Invalid IP address format" ELSE ""
      [] field = "subnet" ->
            IF ~ipRegex(value) THEN "Invalid subnet mask format" ELSE ""
      [] field = "dns" ->
            IF ~ipRegex(value) THEN "Invalid DNS server format" ELSE ""
      [] field = "vlan" ->
            IF VlanOutOfRange(value) THEN "VLAN must be between 1-4094" ELSE ""
      [] field = "bandwidth" ->
            IF ~bandwidthRegex(value)
            THEN "Bandwidth must include unit (e.g., 100 Mbps, 1 Gbps)"
            ELSE ""
      [] field = "location" ->
            IF Len(value) < 3 THEN "Location must be at least 3 characters"
            ELSE ""
      [] field = "mux_id" ->
            IF Len(value) < 3 THEN "MUX ID must be at least 3 characters" ELSE ""
      [] field = "port_id" ->
            IF Len(value) < 3 THEN "Port ID must be at least 3 characters"
            ELSE ""
      [] OTHER -> ""

\* the characters of each form key, for the "... is required" message
FieldChars(field) ==
    CASE field = "circuit_id" -> <<"c","i","r","c","u","i","t","_","i","d">>
      [] field = "client_name" -> <<"c","l","i","e","n","t","_","n","a","m","e">>
      [] field = "client_ip" -> <<"c","l","i","e","n","t","_","i","p">>
      [] field = "subnet" -> <<"s","u","b","n","e","t">>
      [] field = "dns" -> <<"d","n","s">>
      [] field = "vlan" -> <<"v","l","a","n">>
      [] field = "bandwidth" -> <<"b","a","n","d","w","i","d","t","h">>
      [] field = "location" -> <<"l","o","c","a","t","i","o","n">>
      [] field = "mux_id" -> <<"m","u","x","_","i","d">>
      [] field = "port_id" -> <<"p","o","r","t","_","i","d">>

\* the regular expression class \w
WordChars ==
    Digits \cup {"_"}
      \cup {"a","b","c","d","e","f","g","h","i","j","k","l","m",
            "n","o","p","q","r","s","t","u","v","w","x","y","z"}
      \cup {"A","B","C","D","E","F","G","H","I","J","K","L","M",
            "N","O","P","Q","R","S","T","U","V","W","X","Y","Z"}

\* s.replace('_', ' '): a string pattern replaces the first occurrence only
replaceFirstUnderscore(s) ==
    IF \E i \in 1..Len(s) : s[i] = "_"
    THEN LET i == CHOOSE k \in 1..Len(s) :
                      s[k] = "_" /\ \A j \in 1..(k - 1) : s[j] # "_"
         IN  [s EXCEPT ![i] = " "]
    ELSE s

\* s.replace(/\b\w/g, l => l.toUpperCase()): every word character that
\* follows a non-word character or starts the string
capitalizeWords(s) ==
    [i \in 1..Len(s) |->
        IF s[i] \in WordChars /\ (i = 1 \/ s[i - 1] \notin WordChars)
        THEN UpperChar(s[i])
        ELSE s[i]]

\* `${...} is required`
RequiredMessage(field) ==
    <<capitalizeWords(replaceFirstUnderscore(FieldChars(field))), " is required">>

(***************************************************************************)
(* Bounds of the model and the delays of the setTimeout calls              *)
(***************************************************************************)
\* most timers pending at once
MaxTimers == 2

\* the demo buttons the user presses: the first MaxDemoPick of them
MaxDemoPick == 1

\* the clock stops advancing here
MaxNow == 1

LoginDelay == 1000
LookupDelay == 800
SaveDelay == 1000
SuccessClearDelay == 3000
RegisterDelay == 1000
RedirectDelay == 2000

(***************************************************************************)
(* State                                                                   *)
(***************************************************************************)
VARIABLES
    user,             \* Index: useState<User | null>
    selectedCircuit,  \* Index: useState<Circuit | null>
    currentView,      \* Index: 'search' | 'details' | 'register'
    login,            \* LoginForm: username, password, error, loading
    search,           \* CircuitSearch: circuitId, loading, error
    details,          \* CircuitDetails: isEditing, editedCircuit, loading, success, errors
    registration,     \* ClientRegistration: formData, loading, success, errors
    timers,           \* pending setTimeout callbacks with the values they closed over
    now,              \* the clock, as new Date() last read it
    console,          \* the records handleClientRegistered wrote to console.log
    last,             \* history: the handler or callback that ran last
    vField,           \* validator harness: the field under validation
    vValue,           \* validator harness: the chunks typed so far
    vResult           \* validator harness: what the two validators returned

appVars ==
    << user, selectedCircuit, currentView, login, search, details,
       registration, timers, now, console, last >>

valVars == << vField, vValue, vResult >>

vars ==
    << user, selectedCircuit, currentView, login, search, details,
       registration, timers, now, console, last, vField, vValue, vResult >>

\* the value of an errors object with no key
NoErrors == <<>>

LoginInit ==
    [username |-> <<>>, password |-> <<>>, error |-> "", loading |-> FALSE]

SearchInit == [circuitId |-> <<>>, loading |-> FALSE, error |-> <<>>]

DetailsInit(circuit) ==
    [ isEditing |-> FALSE, editedCircuit |-> circuit, loading |-> FALSE,
      success |-> FALSE, errors |-> NoErrors ]

RegInit ==
    [ formData |-> [f \in FormFieldSet |-> <<>>], loading |-> FALSE,
      success |-> FALSE, errors |-> NoErrors ]

ValIdle == [null |-> TRUE]

AppInit ==
    /\ user = NULL
    /\ selectedCircuit = NULL
    /\ currentView = "search"
    /\ login = LoginInit
    /\ search = SearchInit
    /\ details = DetailsInit(NULL)
    /\ registration = RegInit
    /\ timers = <<>>
    /\ now = 0
    /\ console = {}
    /\ last = [op |-> "init"]

Init ==
    /\ AppInit
    /\ vField = "none"
    /\ vValue = <<>>
    /\ vResult = ValIdle

(***************************************************************************)
(* Rendering: which component Index mounts                                 *)
(***************************************************************************)
LoginMounted(u) == u = NULL
SearchMounted(u, v) == u # NULL /\ v = "search"
DetailsMounted(u, v) == u # NULL /\ v = "details"
RegMounted(u, v) == u # NULL /\ v = "register"

\* the timers a component instance started
TimerKinds(component) ==
    CASE component = "LoginForm" -> {"login"}
      [] component = "CircuitSearch" -> {"lookup"}
      [] component = "CircuitDetails" -> {"save", "successClear"}
      [] component = "ClientRegistration" -> {"register", "redirect"}

\* a timer of an unmounted instance still fires; its setState calls do nothing
MarkDead(tm, kinds) ==
    [i \in 1..Len(tm) |->
        IF tm[i].kind \in kinds THEN [tm[i] EXCEPT !.live = FALSE] ELSE tm[i]]

\* Index re-renders with state (u, sc, v).  A component that stays mounted
\* keeps the state its handler computed (lg, se, de, rg); one that is
\* unmounted loses its state; one that is mounted anew starts from useState's
\* initial values.
Commit(u, sc, v, lg, se, de, rg, tm) ==
    LET wasL == LoginMounted(user)
        wasS == SearchMounted(user, currentView)
        wasD == DetailsMounted(user, currentView)
        wasR == RegMounted(user, currentView)
        isL  == LoginMounted(u)
        isS  == SearchMounted(u, v)
        isD  == DetailsMounted(u, v)
        isR  == RegMounted(u, v)
        dead == (IF wasL /\ ~isL THEN TimerKinds("LoginForm") ELSE {})
                  \cup (IF wasS /\ ~isS THEN TimerKinds("CircuitSearch") ELSE {})
                  \cup (IF wasD /\ ~isD THEN TimerKinds("CircuitDetails") ELSE {})
                  \cup (IF wasR /\ ~isR THEN TimerKinds("ClientRegistration") ELSE {})
    IN  /\ user' = u
        /\ selectedCircuit' = sc
        /\ currentView' = v
        /\ login' = IF isL /\ wasL THEN lg ELSE LoginInit
        /\ search' = IF isS /\ wasS THEN se ELSE SearchInit
        /\ details' = IF isD
                      THEN (IF wasD THEN de ELSE DetailsInit(sc))
                      ELSE DetailsInit(NULL)
        /\ registration' = IF isR /\ wasR THEN rg ELSE RegInit
        /\ timers' = MarkDead(tm, dead)
        /\ UNCHANGED valVars

\* a handler that changes no state of Index
Local(lg, se, de, rg, tm) ==
    Commit(user, selectedCircuit, currentView, lg, se, de, rg, tm)

\* new Date() in a timer callback: the timer's delay, at least, has passed
\* since the clock was last read
newDate == IF now < MaxNow THEN now + 1 ELSE now

\* timers fire in deadline order: one started earlier with a delay no longer
\* than that of timers[i] fires before it
CanFire(i) == \A j \in 1..(i - 1) : timers[j].delay > timers[i].delay

Without(tm, i) == SubSeq(tm, 1, i - 1) \o SubSeq(tm, i + 1, Len(tm))

(***************************************************************************)
(* What the user types.  An onChange event carries the whole new value of  *)
(* the input; the values are chosen to reach both branches of every check. *)
(***************************************************************************)
AdminName == <<"a","d","m","i","n">>
AdminPassword == <<"a","d","m","i","n","1","2","3">>

LoginTyped(field) ==
    IF field = "username"
    THEN { AdminName, <<"A","d","m","i","n">>, <<"a","d","m","i","n"," ">> }
    ELSE { AdminPassword, <<"A","d","m","i","n","1","2","3">>,
           <<"a","d","m","i","n","1","2","3"," ">>, <<" ">> }

NewId == <<"N","0","1">>

SearchTyped ==
    { <<"c","k","t","-","0","0","2","-","l","a","x">>,
      <<"C","K","T","-","0","0","1","-","N","Y","C"," ">>,
      <<" ">>,
      NewId }

EditTyped(field) ==
    CASE field = "location" -> { <<"N","Y">> }
      [] field = "client_ip" -> { <<"3","0","0",".","1",".","1",".","1">> }
      [] OTHER -> {}

RegTyped(field) ==
    CASE field = "circuit_id" -> { NewId }
      [] field = "client_name" -> { <<"A","l">> }
      [] field = "client_ip" -> { <<"1","0",".","0",".","0",".","1">> }
      [] field = "subnet" -> { <<"2","5","5",".","0",".","0",".","0">> }
      [] field = "dns" -> { <<"8",".","8",".","8",".","8">> }
      [] field = "vlan" -> { <<"7">> }
      [] field = "bandwidth" -> { <<"1","G","b","p","s">> }
      [] field = "location" -> { <<"L","a","b">> }
      [] field = "mux_id" -> { <<"M","X","1">>, <<" ">> }
      [] field = "port_id" -> { <<"P","0","1">>, <<"P","1">> }

\* the form is filled top to bottom: a field is typed into once every field
\* above it holds something; any filled field may be typed into again
FillOrder(formData, field) ==
    \A i \in 1..Len(FormFields) :
        FormFields[i] = field =>
            \A j \in 1..(i - 1) : formData[FormFields[j]] # <<>>

\* Register Client is pressed on an untouched form or on one filled to its
\* last field
SubmitOrder(formData) ==
    \/ \A f \in FormFieldSet : formData[f] = <<>>
    \/ formData[FormFields[Len(FormFields)]] # <<>>

(***************************************************************************)
(* LoginForm                                                               *)
(***************************************************************************)
\* onChange of the username and password inputs (disabled while loading)
LoginChange(field, value) ==
    /\ LoginMounted(user)
    /\ ~login.loading
    /\ login[field] # value
    /\ Local([login EXCEPT ![field] = value], search, details, registration, timers)
    /\ last' = [op |-> "LoginChange"]
    /\ UNCHANGED << now, console >>

\* LoginForm.handleSubmit
LoginSubmit ==
    /\ LoginMounted(user)
    /\ ~login.loading
    /\ IF trim(login.username) = <<>> \/ trim(login.password) = <<>>
       THEN /\ Local([login EXCEPT !.error = "Please enter both username and password"],
                     search, details, registration, timers)
            /\ last' = [op |-> "LoginSubmit", started |-> FALSE]
       ELSE /\ Len(timers) < MaxTimers
            /\ Local([login EXCEPT !.error = "", !.loading = TRUE],
                     search, details, registration,
                     Append(timers, [ kind |-> "login", delay |-> LoginDelay,
                                      live |-> TRUE,
                                      username |-> login.username,
                                      password |-> login.password ]))
            /\ last' = [op |-> "LoginSubmit", started |-> TRUE]
    /\ UNCHANGED << now, console >>

\* Index.handleLogin
handleLogin(username) == [username |-> username, role |-> "admin"]

\* the comparison with the credentials trimmed first
CredentialsMatchTrimmed(username, password) ==
    trim(username) = AdminName /\ trim(password) = AdminPassword

\* username === 'admin' && password === 'admin123'
CredentialsMatch(username, password) ==
    username = AdminName /\ password = AdminPassword

\* the setTimeout callback of LoginForm.handleSubmit
LoginFire(i) ==
    LET t  == timers[i]
        ok == CredentialsMatch(t.username, t.password)
        lg == IF ~t.live THEN login
              ELSE IF ok THEN [login EXCEPT !.loading = FALSE]
              ELSE [login EXCEPT !.error = "Invalid username or password",
                                 !.loading = FALSE]
    IN  /\ t.kind = "login"
        /\ CanFire(i)
        /\ Commit(IF ok THEN handleLogin(t.username) ELSE user,
                  selectedCircuit, currentView,
                  lg, search, details, registration, Without(timers, i))
        /\ last' = [op |-> "LoginFire", timer |-> t, ok |-> ok]
        /\ UNCHANGED << now, console >>

(***************************************************************************)
(* Header and Index                                                        *)
(***************************************************************************)
\* Index.handleLogout, the Logout button of Header
handleLogout ==
    /\ user # NULL
    /\ Commit(NULL, NULL, "search", login, search, details, registration, timers)
    /\ last' = [op |-> "handleLogout"]
    /\ UNCHANGED << now, console >>

\* Index.handleRegisterClient, the Register New Client button of CircuitSearch
handleRegisterClient ==
    /\ SearchMounted(user, currentView)
    /\ Commit(user, selectedCircuit, "register",
              login, search, details, registration, timers)
    /\ last' = [op |-> "handleRegisterClient"]
    /\ UNCHANGED << now, console >>

\* Index.handleBackToSearch, the Back to Search button of CircuitDetails and
\* of ClientRegistration
handleBackToSearch ==
    /\ \/ DetailsMounted(user, currentView) /\ selectedCircuit # NULL
       \/ RegMounted(user, currentView) /\ ~registration.success
    /\ Commit(user, NULL, "search", login, search, details, registration, timers)
    /\ last' = [op |-> "handleBackToSearch"]
    /\ UNCHANGED << now, console >>

(***************************************************************************)
(* CircuitSearch                                                           *)
(***************************************************************************)
\* onChange of the Circuit ID input (disabled while loading)
SearchChange(value) ==
    /\ SearchMounted(user, currentView)
    /\ ~search.loading
    /\ search.circuitId # value
    /\ Local(login, [search EXCEPT !.circuitId = value], details, registration, timers)
    /\ last' = [op |-> "SearchChange"]
    /\ UNCHANGED << now, console >>

\* the demo buttons: setCircuitId(circuit.circuit_id); never disabled
SearchPickDemo(k) ==
    /\ SearchMounted(user, currentView)
    /\ search.circuitId # mockCircuits[k].circuit_id
    /\ Local(login, [search EXCEPT !.circuitId = mockCircuits[k].circuit_id],
             details, registration, timers)
    /\ last' = [op |-> "SearchPickDemo"]
    /\ UNCHANGED << now, console >>

PleaseEnter == << "Please enter a Circuit ID" >>

\* the message with the ID trimmed
NotFoundTrimmed(circuitId) ==
    << "Circuit ID \"", trim(circuitId), "\" not found in the system" >>

\* `Circuit ID "${circuitId}" not found in the system`
NotFound(circuitId) == << "Circuit ID \"", circuitId, "\" not found in the system" >>

\* CircuitSearch.handleSearch
handleSearch ==
    /\ SearchMounted(user, currentView)
    /\ ~search.loading
    /\ IF trim(search.circuitId) = <<>>
       THEN /\ Local(login, [search EXCEPT !.error = PleaseEnter],
                     details, registration, timers)
            /\ last' = [op |-> "handleSearch", started |-> FALSE,
                        circuitId |-> search.circuitId]
       ELSE /\ Len(timers) < MaxTimers
            /\ Local(login, [search EXCEPT !.error = <<>>, !.loading = TRUE],
                     details, registration,
                     Append(timers, [ kind |-> "lookup", delay |-> LookupDelay,
                                      live |-> TRUE,
                                      circuitId |-> search.circuitId ]))
            /\ last' = [op |-> "handleSearch", started |-> TRUE,
                        circuitId |-> search.circuitId]
    /\ UNCHANGED << now, console >>

\* the comparison without toLowerCase
IdMatchesExact(c, circuitId) == c.circuit_id = circuitId

\* c.circuit_id.toLowerCase() === circuitId.toLowerCase()
IdMatches(c, circuitId) == toLowerCase(c.circuit_id) = toLowerCase(circuitId)

\* mockCircuits.find(...): the first match, NULL for undefined
FindCircuit(store, circuitId) ==
    IF \E k \in 1..Len(store) : IdMatches(store[k], circuitId)
    THEN store[CHOOSE k \in 1..Len(store) :
                   /\ IdMatches(store[k], circuitId)
                   /\ \A j \in 1..(k - 1) : ~IdMatches(store[j], circuitId)]
    ELSE NULL

\* the setTimeout callback of CircuitSearch.handleSearch; a match calls
\* Index.handleCircuitSelect
LookupFire(i) ==
    LET t       == timers[i]
        circuit == FindCircuit(mockCircuits, t.circuitId)
        se      == IF ~t.live THEN search
                   ELSE IF circuit # NULL THEN [search EXCEPT !.loading = FALSE]
                   ELSE [search EXCEPT !.error = NotFound(t.circuitId),
                                       !.loading = FALSE]
    IN  /\ t.kind = "lookup"
        /\ CanFire(i)
        /\ IF circuit # NULL
           THEN Commit(user, circuit, "details",
                       login, se, details, registration, Without(timers, i))
           ELSE Local(login, se, details, registration, Without(timers, i))
        /\ last' = [op |-> "LookupFire", timer |-> t, found |-> circuit]
        /\ UNCHANGED << now, console >>

(***************************************************************************)
(* CircuitDetails                                                          *)
(***************************************************************************)
\* the component returns null, and so offers no control, while circuit is null
DetailsShown == DetailsMounted(user, currentView) /\ selectedCircuit # NULL

\* JavaScript truthiness of errors[field]
HasError(errors, field, none) == field \in DOMAIN errors /\ errors[field] # none

\* { ...errors, [field]: message }
WithKey(errors, field, message) == (field :> message) @@ errors

\* CircuitDetails.handleEdit
handleEdit ==
    /\ DetailsShown
    /\ ~details.isEditing
    /\ Local(login, search,
             [details EXCEPT !.isEditing = TRUE, !.editedCircuit = selectedCircuit,
                             !.errors = NoErrors, !.success = FALSE],
             registration, timers)
    /\ last' = [op |-> "handleEdit"]
    /\ UNCHANGED << now, console >>

\* CircuitDetails.handleCancel
handleCancel ==
    /\ DetailsShown
    /\ details.isEditing
    /\ Local(login, search,
             [details EXCEPT !.isEditing = FALSE, !.editedCircuit = selectedCircuit,
                             !.errors = NoErrors],
             registration, timers)
    /\ last' = [op |-> "handleCancel"]
    /\ UNCHANGED << now, console >>

\* the fields handleSave validates
editableFields ==
    << "client_name", "vlan", "bandwidth", "location", "mux_id", "port_id",
       "client_ip", "subnet", "dns" >>

EditableFieldSet == {editableFields[i] : i \in 1..Len(editableFields)}

\* the newErrors object handleSave builds: a key for each field whose
\* validator returned a non-empty message
EditErrors(editedCircuit) ==
    LET failing == {f \in EditableFieldSet : EditValidateField(f, editedCircuit[f]) # ""}
    IN  [f \in failing |-> EditValidateField(f, editedCircuit[f])]

\* CircuitDetails.handleFieldChange, the onChange of the inputs renderField
\* shows in edit mode
DetailsFieldChange(field, value) ==
    /\ DetailsShown
    /\ details.isEditing
    /\ details.editedCircuit # NULL
    /\ details.editedCircuit[field] # value
    /\ Local(login, search,
             [details EXCEPT
                !.editedCircuit = [details.editedCircuit EXCEPT ![field] = value],
                !.errors = IF HasError(details.errors, field, "")
                           THEN WithKey(details.errors, field, "")
                           ELSE details.errors],
             registration, timers)
    /\ last' = [op |-> "DetailsFieldChange"]
    /\ UNCHANGED << now, console >>

\* CircuitDetails.handleSave, the Save Changes button (disabled while loading)
handleSave ==
    /\ DetailsShown
    /\ details.isEditing
    /\ ~details.loading
    /\ details.editedCircuit # NULL
    /\ LET newErrors == EditErrors(details.editedCircuit)
       IN  IF DOMAIN newErrors # {}
           THEN /\ Local(login, search, [details EXCEPT !.errors = newErrors],
                         registration, timers)
                /\ last' = [op |-> "handleSave", started |-> FALSE,
                            editedCircuit |-> details.editedCircuit]
           ELSE /\ Len(timers) < MaxTimers
                /\ Local(login, search, [details EXCEPT !.loading = TRUE],
                         registration,
                         Append(timers, [ kind |-> "save", delay |-> SaveDelay,
                                          live |-> TRUE,
                                          editedCircuit |-> details.editedCircuit ]))
                /\ last' = [op |-> "handleSave", started |-> TRUE,
                            editedCircuit |-> details.editedCircuit]
    /\ UNCHANGED << now, console >>

\* { ...editedCircuit, last_updated: new Date().toLocaleString() }
Updated(editedCircuit, t) == [editedCircuit EXCEPT !.last_updated = toLocaleString(t)]

\* the setTimeout callback of handleSave; onUpdate is Index's setSelectedCircuit
SaveFire(i) ==
    LET t              == timers[i]
        updatedCircuit == Updated(t.editedCircuit, newDate)
        de             == IF ~t.live THEN details
                          ELSE [details EXCEPT !.isEditing = FALSE,
                                               !.success = TRUE,
                                               !.loading = FALSE]
        nested         == [ kind |-> "successClear", delay |-> SuccessClearDelay,
                            live |-> t.live ]
    IN  /\ t.kind = "save"
        /\ CanFire(i)
        /\ Commit(user, updatedCircuit, currentView,
                  login, search, de, registration,
                  Append(Without(timers, i), nested))
        /\ last' = [op |-> "SaveFire", timer |-> t, emitted |-> updatedCircuit]
        /\ now' = newDate
        /\ UNCHANGED console

\* setTimeout(() => setSuccess(false), 3000)
SuccessClearFire(i) ==
    LET t  == timers[i]
        de == IF ~t.live THEN details ELSE [details EXCEPT !.success = FALSE]
    IN  /\ t.kind = "successClear"
        /\ CanFire(i)
        /\ Local(login, search, de, registration, Without(timers, i))
        /\ last' = [op |-> "SuccessClearFire", timer |-> t]
        /\ UNCHANGED << now, console >>

(***************************************************************************)
(* ClientRegistration                                                      *)
(***************************************************************************)
\* the form is replaced by the success alert while success is set
RegFormShown == RegMounted(user, currentView) /\ ~registration.success

\* the same with the rule tried before the blank check
RegFieldErrorRuleFirst(field, value) ==
    IF RegValidateField(field, value) # "" THEN << RegValidateField(field, value) >>
    ELSE IF trim(value) = <<>> THEN RequiredMessage(field)
    ELSE <<>>

\* the message handleSubmit records for one field, <<>> for none
RegFieldError(field, value) ==
    IF trim(value) = <<>> THEN RequiredMessage(field)
    ELSE IF RegValidateField(field, value) # "" THEN << RegValidateField(field, value) >>
    ELSE <<>>

\* the newErrors object handleSubmit builds
RegErrors(formData) ==
    LET failing == {f \in FormFieldSet : RegFieldError(f, formData[f]) # <<>>}
    IN  [f \in failing |-> RegFieldError(f, formData[f])]

\* ClientRegistration.handleFieldChange
RegFieldChange(field, value) ==
    /\ RegFormShown
    /\ registration.formData[field] # value
    /\ FillOrder(registration.formData, field)
    /\ Local(login, search, details,
             [registration EXCEPT
                !.formData = [registration.formData EXCEPT ![field] = value],
                !.errors = IF HasError(registration.errors, field, <<>>)
                           THEN WithKey(registration.errors, field, <<>>)
                           ELSE registration.errors],
             timers)
    /\ last' = [op |-> "RegFieldChange"]
    /\ UNCHANGED << now, console >>

\* ClientRegistration.handleSubmit, the Register Client button (disabled
\* while loading)
handleSubmit ==
    /\ RegFormShown
    /\ ~registration.loading
    /\ SubmitOrder(registration.formData)
    /\ LET newErrors == RegErrors(registration.formData)
       IN  IF DOMAIN newErrors # {}
           THEN /\ Local(login, search, details,
                         [registration EXCEPT !.errors = newErrors], timers)
                /\ last' = [op |-> "handleSubmit", started |-> FALSE,
                            formData |-> registration.formData]
           ELSE /\ Len(timers) < MaxTimers
                /\ Local(login, search, details,
                         [registration EXCEPT !.loading = TRUE],
                         Append(timers, [ kind |-> "register", delay |-> RegisterDelay,
                                          live |-> TRUE, started |-> now,
                                          formData |-> registration.formData ]))
                /\ last' = [op |-> "handleSubmit", started |-> TRUE,
                            formData |-> registration.formData]
    /\ UNCHANGED << now, console >>

\* the record built from what the form holds when the timer fires
NewCircuitFromState(formData, t) ==
    [f \in CircuitFields |->
        IF f = "last_updated" THEN toLocaleString(t) ELSE registration.formData[f]]

\* { ...formData, last_updated: new Date().toLocaleString() }
NewCircuit(formData, t) ==
    [f \in CircuitFields |->
        IF f = "last_updated" THEN toLocaleString(t) ELSE formData[f]]

\* the handler showing the details view without selecting the record
handleClientRegisteredToDetails(circuit) ==
    [currentView |-> "details", console |-> console \cup {circuit}]

\* Index.handleClientRegistered: logs the record and shows the search view
handleClientRegistered(circuit) ==
    [currentView |-> "search", console |-> console \cup {circuit}]

\* the outer setTimeout callback of handleSubmit
RegisterFire(i) ==
    LET t          == timers[i]
        newCircuit == NewCircuit(t.formData, newDate)
        rg         == IF ~t.live THEN registration
                      ELSE [registration EXCEPT !.success = TRUE, !.loading = FALSE]
        nested     == [ kind |-> "redirect", delay |-> RedirectDelay,
                        live |-> t.live ]
    IN  /\ t.kind = "register"
        /\ CanFire(i)
        /\ Commit(user, selectedCircuit,
                  handleClientRegistered(newCircuit).currentView,
                  login, search, details, rg,
                  Append(Without(timers, i), nested))
        /\ console' = handleClientRegistered(newCircuit).console
        /\ last' = [ op |-> "RegisterFire", timer |-> t, emitted |-> newCircuit,
                     form |-> registration.formData ]
        /\ now' = newDate

\* the inner setTimeout callback: setSuccess(false); onBack()
RedirectFire(i) ==
    LET t  == timers[i]
        rg == IF ~t.live THEN registration ELSE [registration EXCEPT !.success = FALSE]
    IN  /\ t.kind = "redirect"
        /\ CanFire(i)
        /\ Commit(user, NULL, "search",
                  login, search, details, rg, Without(timers, i))
        /\ last' = [op |-> "RedirectFire", timer |-> t]
        /\ UNCHANGED << now, console >>

(***************************************************************************)
(* The next-state relation                                                 *)
(***************************************************************************)
Next ==
    \/ \E field \in {"username", "password"} :
          \E value \in LoginTyped(field) : LoginChange(field, value)
    \/ LoginSubmit
    \/ \E i \in 1..Len(timers) : LoginFire(i)
    \/ handleLogout
    \/ handleRegisterClient
    \/ handleBackToSearch
    \/ \E value \in SearchTyped : SearchChange(value)
    \/ \E k \in 1..Len(mockCircuits) : k <= MaxDemoPick /\ SearchPickDemo(k)
    \/ handleSearch
    \/ \E i \in 1..Len(timers) : LookupFire(i)
    \/ handleEdit
    \/ handleCancel
    \/ \E field \in EditableFieldSet :
          \E value \in EditTyped(field) : DetailsFieldChange(field, value)
    \/ handleSave
    \/ \E i \in 1..Len(timers) : SaveFire(i)
    \/ \E i \in 1..Len(timers) : SuccessClearFire(i)
    \/ \E field \in FormFieldSet :
          \E value \in RegTyped(field) : RegFieldChange(field, value)
    \/ handleSubmit
    \/ \E i \in 1..Len(timers) : RegisterFire(i)
    \/ \E i \in 1..Len(timers) : RedirectFire(i)

Spec == Init /\ [][Next]_vars

(***************************************************************************)
(* The validators alone: a value is put together from chunks and given to  *)
(* both validateField functions                                            *)
(***************************************************************************)
\* most chunks in a value under validation
MaxChunks == 4

IpFields == {"client_ip", "subnet", "dns"}

\* the groups of a dotted string: below, at and above the octet limit, too
\* long, empty, with leading zeros, not a number
IpChunks ==
    { <<"0">>, <<"2","5","5">>, <<"2","5","6">>, <<"9","9","9">>,
      <<"0","0","7">>, <<"1","0","0","0">>, <<>>, <<"1","a">> }

VlanChunks ==
    { <<"0">>, <<"1">>, <<"1","2">>, <<"4","0","9","4">>, <<"4","0","9","5">>,
      <<"a","b","c">>, <<".","5">>, <<" ">>, <<"-">>, <<"+">>, <<"0","x">> }

BandwidthChunks ==
    { <<"1">>, <<"1","0","0">>, <<".","5">>, <<" ">>, <<"\t">>,
      <<"M","b","p","s">>, <<"G","b","p","s">>, <<"K","b","p","s">>,
      <<"k","b","p","s">>, <<"M","b","s">>, <<"b","p","s">> }

TextChunks == { <<"a">>, <<"a","b">>, <<" ">> }

Chunks(field) ==
    CASE field \in IpFields -> IpChunks
      [] field = "vlan" -> VlanChunks
      [] field = "bandwidth" -> BandwidthChunks
      [] OTHER -> TextChunks

\* the chunks of an address are joined by dots, the others are juxtaposed
RECURSIVE Join(_, _)
Join(parts, sep) ==
    IF parts = <<>> THEN <<>>
    ELSE IF Len(parts) = 1 THEN parts[1]
    ELSE parts[1] \o sep \o Join(Tail(parts), sep)

ValueOf(field, parts) ==
    IF field \in IpFields THEN Join(parts, <<".">>) ELSE Join(parts, <<>>)

ValInit ==
    /\ AppInit
    /\ vField \in FormFieldSet
    /\ vValue = <<>>
    /\ vResult = ValIdle

\* one more chunk is typed
ValType(chunk) ==
    /\ vResult = ValIdle
    /\ Len(vValue) < MaxChunks
    /\ vValue' = Append(vValue, chunk)
    /\ UNCHANGED << vField, vResult >>
    /\ UNCHANGED appVars

\* validateField(field, value) of ClientRegistration and of CircuitDetails,
\* and the blank check of ClientRegistration.handleSubmit
ValRun ==
    /\ vResult = ValIdle
    /\ vResult' = [ value |-> ValueOf(vField, vValue),
                    reg   |-> RegValidateField(vField, ValueOf(vField, vValue)),
                    edit  |-> EditValidateField(vField, ValueOf(vField, vValue)),
                    blank |-> trim(ValueOf(vField, vValue)) = <<>> ]
    /\ UNCHANGED << vField, vValue >>
    /\ UNCHANGED appVars

ValNext ==
    \/ \E chunk \in Chunks(vField) : ValType(chunk)
    \/ ValRun

SpecVal == ValInit /\ [][ValNext]_vars

(***************************************************************************)
(* Properties of the edit flow and of the timers                           *)
(***************************************************************************)
\* the operations that end the wait C1 speaks of: Save pressed again, or the
\* details view left
EndsCancelled == {"handleSave", "handleBackToSearch", "handleLogout"}

\* C1: pressing Cancel leaves the edit copy equal to the selected record and
\* the field errors empty, and from then on, until Save is pressed again or
\* the details view is left, the selected record keeps the value it has.
C1_CancelKeepsRecord ==
    /\ [](last.op = "handleCancel" =>
            /\ details.editedCircuit = selectedCircuit
            /\ details.errors = NoErrors)
    /\ [][ (last.op = "handleCancel" /\ last'.op \notin EndsCancelled)
           => selectedCircuit' = selectedCircuit ]_vars

\* the pending timers of one kind
Pending(kind) == {i \in DOMAIN timers : timers[i].kind = kind}

\* C2: the lookup, the edit-save and the registration flow each have at most
\* one latency timer pending at any time.
C2_OneTimerPerFlow ==
    \A kind \in {"lookup", "save", "register"} : Cardinality(Pending(kind)) <= 1

\* C3: while the details view shows a record and is not left by Back or
\* Logout, every record assigned to selectedCircuit has the circuit_id of the
\* record shown before.
C3_CircuitIdImmutable ==
    [][ ( /\ DetailsShown
          /\ last'.op \notin {"handleBackToSearch", "handleLogout"}
          /\ selectedCircuit' # NULL )
        => selectedCircuit'.circuit_id = selectedCircuit.circuit_id ]_vars

\* the fields the specification validates by length
LengthFields == {"location", "mux_id", "port_id"}

\* C4: a Save whose edit copy has a location, mux_id or port_id shorter than
\* three characters starts no timer and records an error under that field.
C4_SaveRejectsShort ==
    last.op = "handleSave" =>
        \A f \in LengthFields :
            Len(last.editedCircuit[f]) < 3 =>
                /\ ~last.started
                /\ HasError(details.errors, f, "")

(***************************************************************************)
(* Properties of the validators                                            *)
(***************************************************************************)
\* the value of a string of decimal digits
RECURSIVE Decimal(_)
Decimal(s) ==
    IF s = <<>> THEN 0 ELSE 10 * Decimal(SubSeq(s, 1, Len(s) - 1)) + DigitVal(s[Len(s)])

\* s without its leading zeros
RECURSIVE StripZeros(_)
StripZeros(s) ==
    IF s # <<>> /\ s[1] = "0" THEN StripZeros(Tail(s)) ELSE s

\* s denotes an integer of 1..4094: digits only, an optional plus sign and
\* surrounding white space allowed
DenotesVlan(s) ==
    LET body     == trim(s)
        unsigned == IF body # <<>> /\ body[1] = "+" THEN Tail(body) ELSE body
        digits   == StripZeros(unsigned)
    IN  /\ unsigned # <<>>
        /\ AllIn(unsigned, Digits)
        /\ Len(digits) \in 1..4
        /\ Decimal(digits) \in 1..4094

\* C5: each of the two validators accepts a vlan value exactly when it denotes
\* an integer of 1..4094.
C5_VlanExact ==
    (vResult # ValIdle /\ vField = "vlan") =>
        /\ (vResult.edit = "") <=> DenotesVlan(vResult.value)
        /\ (vResult.reg = "") <=> DenotesVlan(vResult.value)

\* the groups of IpChunks that are one to three digits, and those of them
\* above 255
ShapedGroups == { <<"0">>, <<"2","5","5">>, <<"2","5","6">>, <<"9","9","9">>,
                  <<"0","0","7">> }
GroupsAbove255 == { <<"2","5","6">>, <<"9","9","9">> }

\* the typed groups make a dotted quad that has a group above 255
QuadWithLargeOctet(parts) ==
    /\ Len(parts) = 4
    /\ \A i \in 1..4 : parts[i] \in ShapedGroups
    /\ \E i \in 1..4 : parts[i] \in GroupsAbove255

OctetMessage(field) ==
    CASE field = "client_ip" -> "IP address octets must be 0-255"
      [] field = "subnet"    -> "Subnet mask octets must be 0-255"
      [] field = "dns"       -> "DNS server octets must be 0-255"

\* C9: for a dotted quad with an octet above 255 in client_ip, subnet or dns,
\* the edit validator returns the field's octet-range message and the
\* registration validator returns no error.
C9_OctetRangeEditOnly ==
    (vResult # ValIdle /\ vField \in IpFields /\ QuadWithLargeOctet(vValue)) =>
        /\ vResult.edit = OctetMessage(vField)
        /\ vResult.reg = ""

\* C9 witness: 255.255.256.0 validated as a subnet mask
C9_Witness ==
    /\ vResult # ValIdle
    /\ vField = "subnet"
    /\ vValue = << <<"2","5","5">>, <<"2","5","5">>, <<"2","5","6">>, <<"0">> >>
    /\ vResult.edit = "Subnet mask octets must be 0-255"
    /\ vResult.reg = ""

(***************************************************************************)
(* Properties of the lookup and of the registration                        *)
(***************************************************************************)
\* the demo Circuit IDs in lower case
LowerDemoIds ==
    << <<"c","k","t","-","0","0","1","-","n","y","c">>,
       <<"c","k","t","-","0","0","2","-","l","a","x">>,
       <<"c","k","t","-","0","0","3","-","c","h","i">> >>

\* circuitId is, case ignored, the ID of the k-th demo record
IsDemoId(circuitId, k) == toLowerCase(circuitId) = LowerDemoIds[k]

NoDemoId(circuitId) == \A k \in 1..Len(LowerDemoIds) : ~IsDemoId(circuitId, k)

\* error is the not-found message that names circuitId, character by character
NamesQueried(error, circuitId) ==
    error = << "Circuit ID \"", circuitId, "\" not found in the system" >>

\* a lookup timer for circuitId is pending
LookupPending(circuitId) ==
    \E i \in Pending("lookup") : timers[i].circuitId = circuitId

\* C6 as stated: every submitted ID that is not a demo ID, blank ones
\* included, gets a lookup that ends in the not-found error naming it, and no
\* record is handed to the caller.
C6_EveryLookupNotFound ==
    /\ (last.op = "handleSearch" /\ NoDemoId(last.circuitId)) =>
            \/ LookupPending(last.circuitId)
            \/ NamesQueried(search.error, last.circuitId)
    /\ (last.op = "LookupFire" /\ NoDemoId(last.timer.circuitId)) =>
            /\ last.found = NULL
            /\ last.timer.live => NamesQueried(search.error, last.timer.circuitId)

\* C6: a blank ID starts no lookup and shows 'Please enter a Circuit ID'; a
\* submitted ID that is not blank and matches no demo ID, case ignored, starts
\* a lookup whose callback hands no record to the caller and, when the search
\* form that started it is still mounted, shows the not-found error naming
\* the submitted string.
C6_NotFound ==
    /\ []( (last.op = "handleSearch" /\ trim(last.circuitId) = <<>>) =>
              /\ ~last.started
              /\ search.error = << "Please enter a Circuit ID" >>
              /\ ~LookupPending(last.circuitId) )
    /\ []( (last.op = "handleSearch" /\ trim(last.circuitId) # <<>>) =>
              /\ last.started
              /\ LookupPending(last.circuitId) )
    /\ []( (last.op = "LookupFire" /\ NoDemoId(last.timer.circuitId)) =>
              /\ last.found = NULL
              /\ last.timer.live =>
                    /\ NamesQueried(search.error, last.timer.circuitId)
                    /\ ~search.loading )
    /\ [][ (last'.op = "LookupFire" /\ NoDemoId(last'.timer.circuitId)) =>
              /\ selectedCircuit' = selectedCircuit
              /\ currentView' = currentView ]_vars

\* C6 witness: the lookup of a demo ID followed by a space has ended in the
\* not-found error that names it, space included
C6_Witness ==
    /\ last.op = "LookupFire"
    /\ last.timer.live
    /\ last.timer.circuitId = <<"C","K","T","-","0","0","1","-","N","Y","C"," ">>
    /\ NamesQueried(search.error, <<"C","K","T","-","0","0","1","-","N","Y","C"," ">>)
    /\ selectedCircuit = NULL
    /\ currentView = "search"

\* C7: after the registration timer of a mounted form has fired the view is
\* still 'register' and shows the success notice; the view is 'search' once
\* the 2000 ms timer has fired.
C7_SuccessNoticeShown ==
    /\ (last.op = "RegisterFire" /\ last.timer.live) =>
            /\ currentView = "register"
            /\ registration.success
    /\ last.op = "RedirectFire" => currentView = "search"

\* the Circuit IDs of the records registered so far
RegisteredIds == {r.circuit_id : r \in console}

\* C8: a lookup whose ID is, case ignored, a demo ID hands the demo record
\* with its original values, whatever was saved or registered before; a
\* lookup of an ID registered in the session that is not a demo ID finds
\* nothing.
C8_StoreReadOnly ==
    /\ \A k \in 1..Len(LowerDemoIds) :
          (last.op = "LookupFire" /\ IsDemoId(last.timer.circuitId, k)) =>
              /\ selectedCircuit = << Demo1, Demo2, Demo3 >>[k]
              /\ currentView = "details"
    /\ ( /\ last.op = "LookupFire"
         /\ last.timer.circuitId \in RegisteredIds
         /\ NoDemoId(last.timer.circuitId) ) =>
              /\ last.found = NULL
              /\ last.timer.live => NamesQueried(search.error, last.timer.circuitId)

\* C8 witness: after a registration and a save, the lookup of ckt-002-lax has
\* handed the second demo record
C8_Witness ==
    /\ last.op = "LookupFire"
    /\ last.timer.circuitId = <<"c","k","t","-","0","0","2","-","l","a","x">>
    /\ selectedCircuit = Demo2
    /\ selectedCircuit.last_updated = [literal |-> "2024-06-13 15:45:00"]
    /\ console # {}

\* C10: a successful submission starts one timer that holds the form values
\* of that moment; its callback hands the caller one record whose ten form
\* fields are those values, whatever the form holds by then, and whose
\* last_updated is read from the clock no earlier than the submission.
C10_RegisteredRecord ==
    /\ []( (last.op = "handleSubmit" /\ last.started) =>
              LET t == timers[Len(timers)]
              IN  /\ t.kind = "register"
                  /\ t.formData = last.formData
                  /\ registration.formData = last.formData
                  /\ \A f \in FormFieldSet :
                        /\ trim(t.formData[f]) # <<>>
                        /\ RegValidateField(f, t.formData[f]) = "" )
    /\ []( last.op = "RegisterFire" =>
              /\ DOMAIN last.emitted = CircuitFields
              /\ \A f \in FormFieldSet : last.emitted[f] = last.timer.formData[f]
              /\ last.emitted.last_updated = [locale |-> now]
              /\ now >= last.timer.started
              /\ last.emitted \in console )
    /\ [][ console' # console =>
              /\ last'.op = "RegisterFire"
              /\ console' = console \cup {last'.emitted} ]_vars

\* C10 witness: the form was typed into while the timer was pending and the
\* record handed over holds the values of the submission
C10_Witness ==
    /\ last.op = "RegisterFire"
    /\ last.timer.live
    /\ last.form # last.timer.formData
    /\ \A f \in FormFieldSet : last.emitted[f] = last.timer.formData[f]
    /\ last.emitted \in console

(***************************************************************************)
(* Properties of a blocked registration                                    *)
(***************************************************************************)
\* the field name as the "... is required" message shows it
RequiredName(field) ==
    CASE field = "circuit_id"  -> <<"C","i","r","c","u","i","t"," ","I","d">>
      [] field = "client_name" -> <<"C","l","i","e","n","t"," ","N","a","m","e">>
      [] field = "client_ip"   -> <<"C","l","i","e","n","t"," ","I","p">>
      [] field = "subnet"      -> <<"S","u","b","n","e","t">>
      [] field = "dns"         -> <<"D","n","s">>
      [] field = "vlan"        -> <<"V","l","a","n">>
      [] field = "bandwidth"   -> <<"B","a","n","d","w","i","d","t","h">>
      [] field = "location"    -> <<"L","o","c","a","t","i","o","n">>
      [] field = "mux_id"      -> <<"M","u","x"," ","I","d">>
      [] field = "port_id"     -> <<"P","o","r","t"," ","I","d">>

IsBlank(value) == \A i \in 1..Len(value) : value[i] \in WhiteSpace

\* the fields of formData that are blank or break their rule
FailingFields(formData) ==
    {f \in FormFieldSet : IsBlank(formData[f]) \/ RegValidateField(f, formData[f]) # ""}

\* the entry a failing field gets: the required message when blank, its
\* rule's message otherwise
ExpectedEntry(field, value) ==
    IF IsBlank(value) THEN << RequiredName(field), " is required" >>
    ELSE << RegValidateField(field, value) >>

\* C11: a registration submitted with a blank or invalid field is blocked:
\* the errors get one entry for each failing field and none for the others,
\* a blank field's entry being '<Field Name> is required'; no timer is
\* started, no record is handed over, and the form values, the view and the
\* rest of the page are left as they were.
C11_BlockedSubmission ==
    /\ []( (last.op = "handleSubmit" /\ FailingFields(last.formData) # {}) =>
              /\ ~last.started
              /\ DOMAIN registration.errors = FailingFields(last.formData)
              /\ \A f \in FailingFields(last.formData) :
                    registration.errors[f] = ExpectedEntry(f, last.formData[f])
              /\ registration.formData = last.formData
              /\ ~registration.loading
              /\ ~registration.success )
    /\ [][ (last'.op = "handleSubmit" /\ FailingFields(last'.formData) # {}) =>
              /\ timers' = timers
              /\ console' = console
              /\ registration'.formData = registration.formData
              /\ currentView' = currentView
              /\ selectedCircuit' = selectedCircuit
              /\ user' = user ]_vars

\* C11 witness: a form with a blank mux_id and a two-character port_id was
\* submitted and got exactly these two entries
C11_Witness ==
    /\ last.op = "handleSubmit"
    /\ ~last.started
    /\ last.formData["mux_id"] = << " " >>
    /\ last.formData["port_id"] = << "P", "1" >>
    /\ DOMAIN registration.errors = {"mux_id", "port_id"}
    /\ registration.errors["mux_id"] = << <<"M","u","x"," ","I","d">>, " is required" >>
    /\ registration.errors["port_id"] = << "Port ID must be at least 3 characters" >>
    /\ currentView = "register"

(***************************************************************************)
(* Properties of a successful save                                         *)
(***************************************************************************)
\* a success-clearing timer of the mounted details component is pending in tm
ClearPending(tm) ==
    \E i \in DOMAIN tm : tm[i].kind = "successClear" /\ tm[i].live

\* C12: when the timer of a successful save fires, the record emitted is the
\* edit copy captured at Save with last_updated read from the clock, it
\* becomes the selected record, and a mounted component leaves edit mode,
\* stops saving and shows the success notice; while the component stays
\* mounted the notice goes off only when the user re-enters edit mode or when
\* the clearing timer of the save that showed it fires, that is, with no
\* clearing timer of a later save still pending.
C12_SaveEmitsAndNotifies ==
    /\ []( last.op = "SaveFire" =>
              /\ last.emitted =
                    [last.timer.editedCircuit EXCEPT !.last_updated = [locale |-> now]]
              /\ selectedCircuit = last.emitted
              /\ (last.timer.live /\ DetailsMounted(user, currentView)) =>
                    /\ ~details.isEditing
                    /\ ~details.loading
                    /\ details.success )
    /\ [][ ( /\ details.success
             /\ ~details'.success
             /\ DetailsMounted(user', currentView')
             /\ last'.op # "handleEdit" )
           => /\ last'.op = "SuccessClearFire"
              /\ ~ClearPending(timers') ]_vars

(***************************************************************************)
(* Properties of the session gate                                          *)
(***************************************************************************)
\* the one pair that opens a session
ExactPair(username, password) ==
    /\ username = <<"a","d","m","i","n">>
    /\ password = <<"a","d","m","i","n","1","2","3">>

AdminSession == [username |-> <<"a","d","m","i","n">>, role |-> "admin"]

\* a login timer holding this pair is pending
LoginPending(username, password) ==
    \E i \in Pending("login") :
        timers[i].username = username /\ timers[i].password = password

\* C13 as stated: a session is created exactly for the pair admin / admin123
\* and has username admin and role admin; every other submitted pair, blank
\* ones included, creates no session and ends in the invalid-credentials
\* error.
C13_SessionIffExactPair ==
    /\ user # NULL => user = AdminSession
    /\ (last.op = "LoginSubmit" /\ ~ExactPair(login.username, login.password)) =>
            /\ user = NULL
            /\ \/ LoginPending(login.username, login.password)
               \/ login.error = "Invalid username or password"
    /\ last.op = "LoginFire" =>
            IF ExactPair(last.timer.username, last.timer.password)
            THEN user = AdminSession
            ELSE user = NULL /\ login.error = "Invalid username or password"

\* C13: a non-null user is always admin with role admin.  A submitted pair
\* with a blank username or password starts no timer and shows 'Please enter
\* both username and password'.  Any other pair starts the timer, whose
\* callback creates the session, with that username and role admin, exactly
\* when the pair is admin / admin123 character for character, and otherwise
\* creates none and shows 'Invalid username or password'.  A session is
\* created by no other step.
C13_SessionGate ==
    /\ [](user # NULL => user = AdminSession)
    /\ []( (last.op = "LoginSubmit" /\ ~last.started) =>
              /\ IsBlank(login.username) \/ IsBlank(login.password)
              /\ login.error = "Please enter both username and password"
              /\ ~LoginPending(login.username, login.password)
              /\ user = NULL )
    /\ []( (last.op = "LoginSubmit" /\ last.started) =>
              /\ ~IsBlank(login.username)
              /\ ~IsBlank(login.password)
              /\ LoginPending(login.username, login.password)
              /\ user = NULL )
    /\ []( last.op = "LoginFire" =>
              IF ExactPair(last.timer.username, last.timer.password)
              THEN user = AdminSession
              ELSE /\ user = NULL
                   /\ login.error = "Invalid username or password"
                   /\ ~login.loading )
    /\ [][ (user' # user /\ user' # NULL) =>
              /\ last'.op = "LoginFire"
              /\ ExactPair(last'.timer.username, last'.timer.password) ]_vars

\* C13 witness: admin followed by a space, with the right password, was
\* turned down
C13_Witness ==
    /\ last.op = "LoginFire"
    /\ last.timer.username = <<"a","d","m","i","n"," ">>
    /\ last.timer.password = <<"a","d","m","i","n","1","2","3">>
    /\ user = NULL
    /\ login.error = "Invalid username or password"

(***************************************************************************)
(* Properties of the bandwidth rule                                        *)
(***************************************************************************)
\* the chunks of BandwidthChunks by what they are
DigitChunks == { <<"1">>, <<"1","0","0">> }
SpaceChunks == { <<" ">>, <<"\t">> }
UnitChunks ==
    { <<"M","b","p","s">>, <<"G","b","p","s">>, <<"K","b","p","s">>,
      <<"k","b","p","s">> }

\* the typed chunks are digits, then optional white space, then one unit
DigitsSpaceUnit(parts) ==
    \E d \in 1..Len(parts) :
        /\ d < Len(parts)
        /\ \A i \in 1..d : parts[i] \in DigitChunks
        /\ \A i \in (d + 1)..(Len(parts) - 1) : parts[i] \in SpaceChunks
        /\ parts[Len(parts)] \in UnitChunks

\* C14: each of the two validators accepts a bandwidth value exactly when it
\* is one or more digits, optional white space and one of the units Kbps,
\* Mbps, Gbps in any letter case, with nothing before or after; a value it
\* turns down gets the bandwidth message.
C14_BandwidthExact ==
    (vResult # ValIdle /\ vField = "bandwidth") =>
        /\ (vResult.reg = "") <=> DigitsSpaceUnit(vValue)
        /\ (vResult.edit = "") <=> DigitsSpaceUnit(vValue)
        /\ vResult.reg \in {"", "Bandwidth must include unit (e.g., 100 Mbps, 1 Gbps)"}
        /\ vResult.edit = vResult.reg

\* C14 witness: "100 kbps" was accepted by both validators
C14_Witness ==
    /\ vResult # ValIdle
    /\ vField = "bandwidth"
    /\ vValue = << <<"1","0","0">>, <<" ">>, <<"k","b","p","s">> >>
    /\ vResult.value = <<"1","0","0"," ","k","b","p","s">>
    /\ vResult.reg = ""
    /\ vResult.edit = ""

(***************************************************************************)
(* Properties of the views                                                 *)
(***************************************************************************)
\* C15: whenever no user is logged in, the view is 'search' and no circuit
\* is selected.
C15_LoggedOutIsReset ==
    user = NULL => (currentView = "search" /\ selectedCircuit = NULL)

\* C16: while the details view shows a record, a step other than Back to
\* Search and Logout leaves the view 'details' and the selected record
\* non-null.
C16_DetailsUntilBack ==
    [][ (DetailsShown /\ last'.op \notin {"handleBackToSearch", "handleLogout"})
        => (currentView' = "details" /\ selectedCircuit' # NULL) ]_vars

(***************************************************************************)
(* Properties of the records handed to Index                               *)
(***************************************************************************)
\* the rule of the specification for one field of the edit path: the edit
\* validator's rules and, for location, mux_id and port_id, a length of at
\* least three
EditRuleHolds(field, value) ==
    /\ EditValidateField(field, value) = ""
    /\ field \in LengthFields => Len(value) >= 3

\* C17: a record handed to onRegister has ten fields that are not blank and
\* pass the registration rules, a record handed to onUpdate has nine editable
\* fields that pass the edit-path rules, and both hold the values captured
\* when Submit or Save was pressed.
C17_EmittedRecordsValid ==
    /\ last.op = "RegisterFire" =>
          \A f \in FormFieldSet :
              /\ last.emitted[f] = last.timer.formData[f]
              /\ ~IsBlank(last.emitted[f])
              /\ RegValidateField(f, last.emitted[f]) = ""
    /\ last.op = "SaveFire" =>
          \A f \in EditableFieldSet :
              /\ last.emitted[f] = last.timer.editedCircuit[f]
              /\ EditRuleHolds(f, last.emitted[f])

\* C18: in the details view a circuit is selected; a step that clears the
\* selection shows the search view, and the record onUpdate stores is not
\* null.
C18_DetailsHasCircuit ==
    /\ [](currentView = "details" => selectedCircuit # NULL)
    /\ [](last.op = "SaveFire" => selectedCircuit # NULL)
    /\ [][ (selectedCircuit # NULL /\ selectedCircuit' = NULL)
           => currentView' = "search" ]_vars

\* C18 witness: the details view shows the record that onUpdate has just
\* stored
C18_Witness ==
    /\ last.op = "SaveFire"
    /\ last.timer.live
    /\ currentView = "details"
    /\ selectedCircuit # NULL
    /\ selectedCircuit = last.emitted

=============================================================================
